---------------------------- MODULE Spec2Model ----------------------------
(***************************************************************************)
(* Model of the cascade-prediction core: the Cascade container             *)
(* (src/src/cascade.py), prefix generation (src/src/prefix.py), the tree   *)
(* builder and the structural metrics (src/src/build_tree.py), feature     *)
(* extraction (src/src/features.py) and the label constructor              *)
(* (src/src/labels.py).                                                    *)
(*                                                                         *)
(* Five specifications share the module:                                   *)
(*   Spec       a source cascade that is populated, deduplicated, sorted   *)
(*              and truncated into a prefix, whose tree is then built;     *)
(*   TreeSpec   one call of structural_metrics(adj, root), with the        *)
(*              breadth-first loop of compute_depths taken step by step;   *)
(*   LabelSpec  one call of construct_labels(prefixes, full_sizes, k);     *)
(*   FeatureSpec  the temporal half of extract_features(prefix): the sort   *)
(*              and temporal_features;                                     *)
(*   AliasSpec  a source and a prefix taken from it, both then used through *)
(*              the methods of Cascade and through extract_features.       *)
(***************************************************************************)
EXTENDS Integers, Sequences, FiniteSets

VARIABLES
    heap,      \* list identity -> the Python list of Event it holds
    source,    \* the source Cascade object (its events field is a list identity)
    pref,      \* Optional[Cascade] returned by the last get_k_prefix: <<>> is None
    call,      \* the last call: its name, its argument k, the source before it
    result,    \* what the last call computed: the list of earliest_event_by_user,
               \* the adjacency of build_tree; <<>> for a call that returns nothing
    adj,       \* structural_metrics: the adjacency argument
    root,      \* structural_metrics: the root argument
    pc,        \* structural_metrics / construct_labels: position in the code
    depths,    \* compute_depths: the depths dict
    queue,     \* compute_depths: the FIFO frontier
    current,   \* compute_depths: the node popped last
    todo,      \* compute_depths: children of current the for loop has yet to visit
    metrics,   \* structural_metrics: the returned dict
    prefixes,  \* construct_labels: cascade ids of the prefixes argument, in order
    full_sizes,\* construct_labels: the full_sizes dict
    kk,        \* construct_labels: the k argument
    labels     \* construct_labels: the labels list built so far

vars == <<heap, source, pref, call, result, adj, root, pc, depths, queue,
          current, todo, metrics, prefixes, full_sizes, kk, labels>>

cascadeVars == <<heap, source, pref, call, result>>
treeVars == <<adj, root, depths, queue, current, todo, metrics>>
labelVars == <<prefixes, full_sizes, kk, labels>>

-----------------------------------------------------------------------------
(* Bounds *)

MaxTime == 1        \* event times are 0..MaxTime
MaxEvents == 3      \* a cascade holds at most MaxEvents events
MaxK == 3           \* get_k_prefix is called with k in -NegK..MaxK
NegK == 1
MaxEdges == 4       \* an adjacency given to structural_metrics has at most MaxEdges edges
MaxSize == 10       \* full_sizes maps to 0..MaxSize
MaxLabelK == 5      \* construct_labels is called with k in -NegK..MaxLabelK
MaxPrefixes == 2    \* construct_labels is given at most MaxPrefixes prefixes
MaxFeatTime == 10   \* temporal_features: event times are 0..MaxFeatTime
MaxFeatLen == 4     \* temporal_features: a prefix holds at most MaxFeatLen events
MaxAliasLen == 2    \* AliasSpec: the source and the prefix hold at most MaxAliasLen events

Users == {1, 2}
Times == 0..MaxTime
Roots == {0, 1}     \* root 0 never retweets and is never retweeted from
Cids == {7}
LabelCids == {1, 2} \* cascade ids of the prefixes given to construct_labels
Nodes == {1, 2, 3, 4}   \* the nodes of an adjacency given to structural_metrics
PublishTimes == {5}

\* Event(user, parent, time), src/src/cascade.py
Event == [user : Users, parent : Users, time : Times]

Min(a, b) == IF a < b THEN a ELSE b
Max(a, b) == IF a > b THEN a ELSE b

\* list identities: the list of the source cascade, the list of a prefix
SrcList == "source.events"
PreList == "prefix.events"
OtherList == "other.events"  \* the list of a prefix that is returned and dropped
ListIds == {SrcList, PreList, OtherList}

-----------------------------------------------------------------------------
(* Cascade *)

\* list.sort(key=lambda e: e.time) is stable: e goes behind every element
\* whose time is not greater
RECURSIVE InsertByTime(_, _)
InsertByTime(e, s) ==
    IF s = <<>> THEN <<e>>
    ELSE IF e.time < Head(s).time THEN <<e>> \o s
    ELSE <<Head(s)>> \o InsertByTime(e, Tail(s))

RECURSIVE SortByTimeFrom(_, _)
SortByTimeFrom(s, acc) ==
    IF s = <<>> THEN acc
    ELSE SortByTimeFrom(Tail(s), InsertByTime(Head(s), acc))

\* the list after events.sort(key=lambda e: e.time)
SortedByTime(s) == SortByTimeFrom(s, <<>>)

\* a slip: one element too many
SliceToOneMore(s, k) ==
    IF k >= 0 THEN SubSeq(s, 1, Min(k + 1, Len(s)))
    ELSE SubSeq(s, 1, Max(0, Len(s) + k + 1))

\* Python's s[:k], negative k counting from the end
SliceTo(s, k) ==
    IF k >= 0 THEN SubSeq(s, 1, Min(k, Len(s)))
    ELSE SubSeq(s, 1, Max(0, Len(s) + k))

\* the value of a cascade object: its fields, with the list it refers to
Snapshot(c, h) ==
    [cid |-> c.cid, root |-> c.root, publish_time |-> c.publish_time,
     events |-> h[c.events]]

\* Cascade.add_event on the source
add_event(user, parent, time) ==
    /\ Len(heap[source.events]) < MaxEvents
    /\ heap' = [heap EXCEPT ![source.events] =
                   Append(@, [user |-> user, parent |-> parent, time |-> time])]
    /\ call' = [op |-> "add_event", k |-> 0, before |-> Snapshot(source, heap)]
    /\ result' = <<>>
    /\ UNCHANGED <<source, pref>>

\* Cascade.sort_events on the source
sort_events ==
    /\ heap' = [heap EXCEPT ![source.events] = SortedByTime(@)]
    /\ call' = [op |-> "sort_events", k |-> 0, before |-> Snapshot(source, heap)]
    /\ result' = <<>>
    /\ UNCHANGED <<source, pref>>

\* a slip: the source is cut down to the prefix instead of being copied
PrefixHeapInPlace(h, self, k) ==
    LET sorted == SortedByTime(h[self.events])
    IN IF Len(sorted) < k THEN [h EXCEPT ![self.events] = sorted]
       ELSE [h EXCEPT ![self.events] = SliceTo(sorted, k),
                      ![PreList] = SliceTo(sorted, k)]

\* the heap after self.sort_events() and prefix.events = self.events[:k].copy(),
\* the copy being the new list new
PrefixHeapInto(h, self, k, new) ==
    LET sorted == SortedByTime(h[self.events])
        h1 == [h EXCEPT ![self.events] = sorted]
    IN IF Len(sorted) < k THEN h1
       ELSE [h1 EXCEPT ![new] = SliceTo(sorted, k)]

\* the same, for the prefix the pipeline keeps
PrefixHeap(h, self, k) == PrefixHeapInto(h, self, k, PreList)

\* a slip: prefix.events = self.events, the prefix refers to the list of self
PrefixResultShared(h, self, k) ==
    IF Len(h[self.events]) < k THEN <<>>
    ELSE <<[cid |-> self.cid, root |-> self.root,
            publish_time |-> self.publish_time, events |-> self.events]>>

\* the value get_k_prefix returns
PrefixResult(h, self, k) ==
    IF Len(h[self.events]) < k THEN <<>>
    ELSE <<[cid |-> self.cid, root |-> self.root,
            publish_time |-> self.publish_time, events |-> PreList]>>

\* Cascade.get_k_prefix on the source
get_k_prefix(k) ==
    /\ heap' = PrefixHeap(heap, source, k)
    /\ pref' = PrefixResult(heap, source, k)
    /\ call' = [op |-> "get_k_prefix", k |-> k, before |-> Snapshot(source, heap)]
    /\ result' = <<>>
    /\ UNCHANGED source

\* by_user[ev.user] = ev on a dict kept as its values in insertion order: an
\* existing key keeps its position, a new key goes last
RECURSIVE DictPut(_, _)
DictPut(by_user, ev) ==
    IF by_user = <<>> THEN <<ev>>
    ELSE IF Head(by_user).user = ev.user THEN <<ev>> \o Tail(by_user)
    ELSE <<Head(by_user)>> \o DictPut(Tail(by_user), ev)

\* the user is a key of by_user
HasUser(by_user, u) == \E i \in 1..Len(by_user) : by_user[i].user = u

\* by_user[u]
DictGet(by_user, u) ==
    by_user[CHOOSE i \in 1..Len(by_user) : by_user[i].user = u]

\* a slip: > for <, which keeps the latest event of a user
LatestStep(by_user, ev) ==
    IF ~HasUser(by_user, ev.user) \/ ev.time > DictGet(by_user, ev.user).time
    THEN DictPut(by_user, ev)
    ELSE by_user

\* one turn of the loop of earliest_event_by_user
EarliestStep(by_user, ev) ==
    IF ~HasUser(by_user, ev.user) \/ ev.time < DictGet(by_user, ev.user).time
    THEN DictPut(by_user, ev)
    ELSE by_user

RECURSIVE EarliestFrom(_, _)
EarliestFrom(events, by_user) ==
    IF events = <<>> THEN by_user
    ELSE EarliestFrom(Tail(events), EarliestStep(by_user, Head(events)))

\* a slip: the loop starts at the second event
earliest_skipping_first(events) ==
    IF events = <<>> THEN <<>> ELSE EarliestFrom(Tail(events), <<>>)

\* earliest_event_by_user(events): list(by_user.values())
earliest_event_by_user(events) == EarliestFrom(events, <<>>)

\* parse_dataset, once the events of a line are read: deduplicate, sort
dedup_events ==
    /\ result' = earliest_event_by_user(heap[source.events])
    /\ heap' = [heap EXCEPT ![source.events] = SortedByTime(result')]
    /\ call' = [op |-> "dedup_events", k |-> 0, before |-> Snapshot(source, heap)]
    /\ UNCHANGED <<source, pref>>

-----------------------------------------------------------------------------
(* Tree builder *)

\* adj.setdefault(node, set())
SetDefault(a, node) ==
    IF node \in DOMAIN a THEN a
    ELSE [n \in DOMAIN a \cup {node} |-> IF n \in DOMAIN a THEN a[n] ELSE {}]

\* a slip: the retweeting user gets no key of its own
TreeStepParentOnly(a, event) ==
    LET a2 == SetDefault(a, event.parent)
    IN [a2 EXCEPT ![event.parent] = @ \cup {event.user}]

\* one turn of the loop of build_tree
TreeStep(a, event) ==
    LET a2 == SetDefault(SetDefault(a, event.parent), event.user)
    IN [a2 EXCEPT ![event.parent] = @ \cup {event.user}]

RECURSIVE TreeFrom(_, _)
TreeFrom(events, a) ==
    IF events = <<>> THEN a
    ELSE TreeFrom(Tail(events), TreeStep(a, Head(events)))

\* a slip: the root gets no key unless an event names it
build_tree_no_root(r, events) == TreeFrom(events, <<>>)

\* build_tree(cascade), the cascade given by its root and its list of events
build_tree(r, events) == TreeFrom(events, SetDefault(<<>>, r))

\* extract_features on the prefix returned last: sort, then build the tree.
\* temporal_features and structural_metrics read the prefix and the tree and
\* change neither; structural_metrics is taken step by step under TreeSpec,
\* temporal_features under FeatureSpec.
extract_features ==
    /\ pref # <<>>
    /\ heap' = [heap EXCEPT ![pref[1].events] = SortedByTime(@)]
    /\ result' = build_tree(pref[1].root, heap'[pref[1].events])
    /\ call' = [op |-> "extract_features", k |-> 0, before |-> Snapshot(source, heap)]
    /\ UNCHANGED <<source, pref>>

-----------------------------------------------------------------------------
(* Specification of the cascade pipeline *)

\* Lifecycle of a cascade: populated, then truncated into prefixes
Populate == "populate"
Truncate == "truncate"

Init ==
    /\ heap = [l \in ListIds |-> <<>>]
    /\ source \in [cid : Cids, root : Roots, publish_time : PublishTimes,
                   events : {SrcList}]
    /\ pref = <<>>
    /\ result = <<>>
    /\ call = [op |-> "init", k |-> 0, before |-> Snapshot(source, heap)]
    /\ pc = Populate
    /\ adj = <<>> /\ root = 0 /\ depths = <<>> /\ queue = <<>>
    /\ current = 0 /\ todo = {} /\ metrics = <<>>
    /\ prefixes = <<>> /\ full_sizes = <<>> /\ kk = 0 /\ labels = <<>>

Next ==
    \/ /\ pc = Populate
       /\ \E u \in Users, p \in Users, t \in Times : add_event(u, p, t)
       /\ UNCHANGED <<treeVars, labelVars, pc>>
    \/ pc = Populate /\ sort_events /\ UNCHANGED <<treeVars, labelVars, pc>>
    \/ pc = Populate /\ dedup_events /\ UNCHANGED <<treeVars, labelVars, pc>>
    \/ /\ \E k \in (0 - NegK)..MaxK : get_k_prefix(k)
       /\ pc' = Truncate
       /\ UNCHANGED <<treeVars, labelVars>>
    \/ pc = Truncate /\ extract_features /\ UNCHANGED <<treeVars, labelVars, pc>>

Spec == Init /\ [][Next]_vars

-----------------------------------------------------------------------------
(* Properties of the cascade pipeline *)

Perms(n) == {p \in [1..n -> 1..n] : \A i, j \in 1..n : p[i] = p[j] => i = j}

IsSortedByTime(s) == \A i, j \in 1..Len(s) : i < j => s[i].time <= s[j].time

\* t holds the events of s, in ascending time order, events of equal time in the
\* order they have in s
IsStableSortOf(t, s) ==
    /\ Len(t) = Len(s)
    /\ IsSortedByTime(t)
    /\ \E p \in Perms(Len(s)) :
          /\ \A i \in 1..Len(s) : t[i] = s[p[i]]
          /\ \A i, j \in 1..Len(s) :
                (i < j /\ t[i].time = t[j].time) => p[i] < p[j]

AfterGetKPrefix == call.op = "get_k_prefix"

\* C1 as stated: get_k_prefix(k) leaves cid, root, publish_time and the sequence
\* of events of the source exactly as they were before the call, whatever the
\* order of the events and whether a prefix or None is returned.
C1_SourceUntouched ==
    AfterGetKPrefix => Snapshot(source, heap) = call.before

\* C1 amended: get_k_prefix(k) leaves cid, root and publish_time of the source
\* as they were and neither adds, removes nor alters an event, but it sorts the
\* source's events in place: afterwards they are in ascending time order, events
\* of equal time in their previous relative order; the sequence is exactly as
\* before when it was already in ascending time order. This holds whether a
\* prefix or None is returned.
C1_SourceOnlySorted ==
    AfterGetKPrefix =>
        LET now == Snapshot(source, heap) IN
        /\ now.cid = call.before.cid
        /\ now.root = call.before.root
        /\ now.publish_time = call.before.publish_time
        /\ IsStableSortOf(now.events, call.before.events)
        /\ IsSortedByTime(call.before.events) => now.events = call.before.events

\* C1 witnesses: a call on an unsorted source that returned a prefix, and one on
\* a sorted source with two events of equal time that returned None
C1_Witness ==
    /\ AfterGetKPrefix
    /\ ~IsSortedByTime(call.before.events)
    /\ \E i, j \in 1..Len(call.before.events) :
          i # j /\ call.before.events[i].time = call.before.events[j].time
    /\ pref # <<>>
    /\ Len(heap[PreList]) >= 1

\* the events of the prefix returned last
PrefixEvents == heap[pref[1].events]

\* kept holds k events of all, none of them later than an event of all that
\* it leaves out
IsEarliest(kept, all, k) ==
    /\ Len(kept) = k
    /\ \E p \in Perms(Len(all)) :
          /\ \A i \in 1..k : kept[i] = all[p[i]]
          /\ \A i \in 1..k : \A j \in (k + 1)..Len(all) :
                all[p[i]].time <= all[p[j]].time

\* what C2 says of one call
PrefixContract ==
    IF Len(call.before.events) >= call.k
    THEN /\ pref # <<>>
         /\ pref[1].events # source.events
         /\ IsEarliest(PrefixEvents, call.before.events, call.k)
         /\ pref[1].cid = call.before.cid
         /\ pref[1].root = call.before.root
         /\ pref[1].publish_time = call.before.publish_time
    ELSE pref = <<>>

\* C2 as stated: for every integer k, get_k_prefix(k) on a cascade of at least k
\* events returns a new Cascade with exactly k events, the k earliest by time,
\* and the same id, root and publish_time; on a cascade of fewer than k events it
\* returns None.
C2_PrefixForEveryK ==
    AfterGetKPrefix => PrefixContract

\* C2 amended: the same, for every k >= 0.
C2_PrefixForNaturalK ==
    (AfterGetKPrefix /\ call.k >= 0) => PrefixContract

\* C2 witness: a proper prefix of an unsorted source was returned, and an event
\* that was dropped is later than one that was kept
C2_Witness ==
    /\ AfterGetKPrefix
    /\ call.k >= 1
    /\ Len(call.before.events) > call.k
    /\ ~IsSortedByTime(call.before.events)
    /\ pref # <<>>
    /\ \E i \in 1..Len(call.before.events) :
          call.before.events[i].time > PrefixEvents[call.k].time

AfterDedup == call.op = "dedup_events"

\* the events of a list, as a set
Elements(s) == {s[i] : i \in 1..Len(s)}

UsersOf(s) == {s[i].user : i \in 1..Len(s)}

\* C7: earliest_event_by_user is idempotent: applied to its own result it
\* returns the same events in the same order.
C7_EarliestIdempotent ==
    AfterDedup => earliest_event_by_user(result) = result

\* C7 witness: the list had two events of one user with the same, minimum, time
\* and events of two users, so the result is shorter than the list and has an order
C7_Witness ==
    /\ AfterDedup
    /\ Len(result) >= 2
    /\ LET L == call.before.events IN
       \E i, j \in 1..Len(L) :
          /\ i < j /\ L[i].user = L[j].user /\ L[i].time = L[j].time
          /\ L[i] # L[j]
          /\ \A n \in 1..Len(L) : L[n].user = L[i].user => L[n].time >= L[i].time

\* C8: earliest_event_by_user(L) holds exactly one event for each user of L and
\* none for another user; each event it holds is an event of L, and its time is
\* the minimum time of the events of its user in L.
C8_EarliestPerUser ==
    AfterDedup =>
        LET L == call.before.events IN
        /\ UsersOf(result) = UsersOf(L)
        /\ \A i, j \in 1..Len(result) : result[i].user = result[j].user => i = j
        /\ \A i \in 1..Len(result) :
              /\ result[i] \in Elements(L)
              /\ \A n \in 1..Len(L) :
                    L[n].user = result[i].user => result[i].time <= L[n].time

\* C8 witness: a user had a later event before an earlier one, and another user
\* had events too
C8_Witness ==
    /\ AfterDedup
    /\ Len(result) >= 2
    /\ LET L == call.before.events IN
       \E i, j \in 1..Len(L) :
          i < j /\ L[i].user = L[j].user /\ L[j].time < L[i].time

AfterExtract == call.op = "extract_features"

\* C3: build_tree's output has the root as a key, also when no event names the
\* root; for a cascade without events it is the mapping {root: empty set}.
C3_RootIsKey ==
    AfterExtract =>
        /\ pref[1].root \in DOMAIN result
        /\ PrefixEvents = <<>> => result = [n \in {pref[1].root} |-> {}]

\* C3 witness: a tree was built from events none of which names the root
C3_Witness ==
    /\ AfterExtract
    /\ PrefixEvents # <<>>
    /\ \A i \in 1..Len(PrefixEvents) :
          /\ PrefixEvents[i].user # pref[1].root
          /\ PrefixEvents[i].parent # pref[1].root

\* the list s in the order p
Permuted(s, p) == [i \in 1..Len(s) |-> s[p[i]]]

\* C10: build_tree's keys are the root, the users and the parents of the events;
\* u is a child of p iff an event has user u and parent p; so every child is a
\* key, and the result is the same for every order of the same events.
C10_TreeOfEvents ==
    AfterExtract =>
        LET E == PrefixEvents IN
        /\ DOMAIN result = {pref[1].root} \cup UsersOf(E)
                              \cup {E[i].parent : i \in 1..Len(E)}
        /\ \A p \in DOMAIN result : \A u \in Users \cup Roots :
              u \in result[p] <=>
                  \E i \in 1..Len(E) : E[i].user = u /\ E[i].parent = p
        /\ \A p \in DOMAIN result : result[p] \subseteq DOMAIN result
        /\ \A q \in Perms(Len(E)) :
              build_tree(pref[1].root, Permuted(E, q)) = result

\* C10 witness: a tree of three keys, of which one is a user that is nobody's
\* parent and one a parent that is not the root
C10_Witness ==
    /\ AfterExtract
    /\ Cardinality(DOMAIN result) = 3
    /\ Len(PrefixEvents) >= 2
    /\ \E u \in DOMAIN result : u # pref[1].root /\ result[u] = {}
    /\ \E p \in DOMAIN result : p # pref[1].root /\ result[p] # {}

-----------------------------------------------------------------------------
(* Structural metrics: one call of structural_metrics(adj, root) *)

\* a float that is the quotient of two integers, in lowest terms
RECURSIVE Gcd(_, _)
Gcd(a, b) == IF b = 0 THEN a ELSE Gcd(b, a % b)

Quot(n, d) == LET g == Gcd(n, d) IN <<n \div g, d \div g>>

Float(n) == <<n, 1>>

\* the dict returned when there is no tree
NoTree ==
    [depth |-> Float(0), avg_depth |-> Float(0), leaves |-> Float(1),
     branching_factor |-> Float(0), wiener_root_avg |-> Float(0)]

RECURSIVE SumOf(_, _)
SumOf(f, S) ==
    IF S = {} THEN 0
    ELSE LET n == CHOOSE x \in S : TRUE IN f[n] + SumOf(f, S \ {n})

MaxOf(f, S) == CHOOSE m \in {f[n] : n \in S} : \A n \in S : f[n] <= m

\* reachable = [node for node, d in depths.items() if d >= 0]
ReachableIn(d) == {node \in DOMAIN d : d[node] >= 0}

\* a slip: the leaves are counted among all keys
LeavesOfAll(a, reachable) == {node \in DOMAIN a : Cardinality(a[node]) = 0}

\* leaves = [node for node in reachable if len(adj.get(node, set())) == 0]
LeavesOf(a, reachable) == {node \in reachable : Cardinality(a[node]) = 0}

\* a slip: the mean is taken over every reachable node
NonLeavesOfAll(a, reachable) == reachable

\* non_leaves = [node for node in reachable if len(adj.get(node, set())) > 0]
NonLeavesOf(a, reachable) == {node \in reachable : Cardinality(a[node]) > 0}

\* structural_metrics once compute_depths has returned d
MetricsOf(a, d) ==
    LET reachable == ReachableIn(d)
        leaves == LeavesOf(a, reachable)
        non_leaves == NonLeavesOf(a, reachable)
        childCount == [node \in DOMAIN a |-> Cardinality(a[node])]
    IN IF reachable = {} THEN NoTree
       ELSE [depth |-> Float(MaxOf(d, reachable)),
             avg_depth |-> Quot(SumOf(d, reachable), Cardinality(reachable)),
             leaves |-> Float(Cardinality(leaves)),
             branching_factor |->
                 IF non_leaves # {}
                 THEN Quot(SumOf(childCount, non_leaves), Cardinality(non_leaves))
                 ELSE Float(0),
             wiener_root_avg |-> Quot(SumOf(d, reachable), Cardinality(reachable))]

Start == "start"
While == "while"
For == "for"
Done == "done"

\* a slip: depths[root] = 0 is missing
sm_enter_root_unset ==
    /\ pc = Start
    /\ IF root \notin DOMAIN adj
       THEN /\ metrics' = NoTree
            /\ pc' = Done
            /\ UNCHANGED <<depths, queue>>
       ELSE /\ depths' = [node \in DOMAIN adj |-> -1]
            /\ queue' = <<root>>
            /\ pc' = While
            /\ UNCHANGED metrics
    /\ UNCHANGED <<adj, root, current, todo>>

\* structural_metrics up to the loop of compute_depths: no tree without the
\* root; else every depth -1, the root's 0, the root queued
sm_enter ==
    /\ pc = Start
    /\ IF root \notin DOMAIN adj
       THEN /\ metrics' = NoTree
            /\ pc' = Done
            /\ UNCHANGED <<depths, queue>>
       ELSE /\ depths' = [[node \in DOMAIN adj |-> -1] EXCEPT ![root] = 0]
            /\ queue' = <<root>>
            /\ pc' = While
            /\ UNCHANGED metrics
    /\ UNCHANGED <<adj, root, current, todo>>

\* current = queue.pop(0); for child in adj.get(current, set()):
bfs_pop ==
    /\ pc = While
    /\ queue # <<>>
    /\ current' = Head(queue)
    /\ queue' = Tail(queue)
    /\ todo' = adj[Head(queue)]
    /\ pc' = For
    /\ UNCHANGED <<adj, root, depths, metrics>>

\* a slip: the test of the child's depth is missing
bfs_visit_unchecked(child) ==
    /\ pc = For
    /\ child \in todo
    /\ depths' = [depths EXCEPT ![child] = depths[current] + 1]
    /\ queue' = Append(queue, child)
    /\ todo' = todo \ {child}
    /\ UNCHANGED <<adj, root, current, pc, metrics>>

\* one turn of the for loop: a set is iterated in no particular order
bfs_visit(child) ==
    /\ pc = For
    /\ child \in todo
    /\ IF depths[child] = -1 \/ depths[child] > depths[current] + 1
       THEN /\ depths' = [depths EXCEPT ![child] = depths[current] + 1]
            /\ queue' = Append(queue, child)
       ELSE UNCHANGED <<depths, queue>>
    /\ todo' = todo \ {child}
    /\ UNCHANGED <<adj, root, current, pc, metrics>>

\* the for loop is exhausted
bfs_next ==
    /\ pc = For
    /\ todo = {}
    /\ pc' = While
    /\ UNCHANGED <<adj, root, depths, queue, current, todo, metrics>>

\* the queue is empty: compute_depths returns, structural_metrics computes
sm_return ==
    /\ pc = While
    /\ queue = <<>>
    /\ metrics' = MetricsOf(adj, depths)
    /\ pc' = Done
    /\ UNCHANGED <<adj, root, depths, queue, current, todo>>

\* the adjacencies over a set of keys: every child is a key
AdjacenciesOver(K) ==
    {[node \in K |-> {c \in K : <<node, c>> \in E}] :
        E \in {E \in SUBSET (K \X K) : Cardinality(E) <= MaxEdges}}

TreeInit ==
    /\ \E K \in SUBSET Nodes : adj \in AdjacenciesOver(K)
    /\ root \in Nodes
    /\ pc = Start
    /\ depths = <<>> /\ queue = <<>> /\ current = 0 /\ todo = {}
    /\ metrics = <<>>
    /\ heap = [l \in ListIds |-> <<>>]
    /\ source = [cid |-> 0, root |-> 0, publish_time |-> 0, events |-> SrcList]
    /\ pref = <<>> /\ result = <<>>
    /\ call = [op |-> "init", k |-> 0, before |-> Snapshot(source, heap)]
    /\ prefixes = <<>> /\ full_sizes = <<>> /\ kk = 0 /\ labels = <<>>

TreeNext ==
    \/ sm_enter /\ UNCHANGED <<cascadeVars, labelVars>>
    \/ bfs_pop /\ UNCHANGED <<cascadeVars, labelVars>>
    \/ (\E child \in Nodes : bfs_visit(child)) /\ UNCHANGED <<cascadeVars, labelVars>>
    \/ bfs_next /\ UNCHANGED <<cascadeVars, labelVars>>
    \/ sm_return /\ UNCHANGED <<cascadeVars, labelVars>>

TreeSpec == TreeInit /\ [][TreeNext]_vars

\* the call runs on: a step that can be taken is taken
TreeFairSpec == TreeInit /\ [][TreeNext]_vars /\ WF_vars(TreeNext)

-----------------------------------------------------------------------------
(* Properties of structural_metrics and compute_depths *)

\* the nodes a directed path of at most i edges leads to from r
RECURSIVE Within(_, _, _)
Within(a, r, i) ==
    IF i = 0 THEN {r}
    ELSE LET W == Within(a, r, i - 1)
         IN W \cup UNION {a[node] : node \in W}

\* the length of the shortest directed path from r to node, -1 if there is none
Dist(a, r, node) ==
    LET N == Cardinality(DOMAIN a) IN
    IF node \notin Within(a, r, N) THEN -1
    ELSE CHOOSE i \in 0..N :
            /\ node \in Within(a, r, i)
            /\ i > 0 => node \notin Within(a, r, i - 1)

Returned == pc = Done

\* C4: for a root that is a key, compute_depths gives the root depth 0, every
\* node that no path from the root reaches depth -1 and every other node the
\* length of the shortest path from the root; so a node of depth d > 0 has a
\* parent of depth d - 1, also when it has two parents.
C4_DepthIsDistance ==
    (Returned /\ root \in DOMAIN adj) =>
        /\ DOMAIN depths = DOMAIN adj
        /\ depths[root] = 0
        /\ \A node \in DOMAIN adj : depths[node] = Dist(adj, root, node)
        /\ \A node \in DOMAIN adj :
              depths[node] > 0 =>
                  \E parent \in DOMAIN adj :
                      node \in adj[parent] /\ depths[parent] = depths[node] - 1

\* C4 witness: a node with two parents of different depths, and a node the root
\* does not reach
C4_Witness ==
    /\ Returned
    /\ root \in DOMAIN adj
    /\ \E node \in DOMAIN adj : depths[node] = -1
    /\ \E node, p, q \in DOMAIN adj :
          /\ node \in adj[p] /\ node \in adj[q]
          /\ depths[p] = 0 /\ depths[q] = 1 /\ depths[node] = 1

\* C5: without the root among the keys, and with a root that has no children,
\* structural_metrics returns depth 0, avg_depth 0, leaves 1, branching_factor 0
\* and wiener_root_avg 0, whatever other keys there are.
C5_NoTreeMetrics ==
    (Returned /\ (root \notin DOMAIN adj \/ adj[root] = {})) => metrics = NoTree

\* C5 witness: the root is a key without children, beside keys that have children
C5_Witness ==
    /\ Returned
    /\ root \in DOMAIN adj
    /\ adj[root] = {}
    /\ \E node \in DOMAIN adj : node # root /\ adj[node] # {} /\ root \in adj[node]
    /\ \E node \in DOMAIN adj : node # root /\ adj[node] = {}

\* the reachable set: the nodes a path from the root leads to
ReachableSet(a, r) == Within(a, r, Cardinality(DOMAIN a))

\* the sum of the distances from the root, level by level
RECURSIVE DistSum(_, _, _)
DistSum(a, r, i) ==
    IF i = 0 THEN 0
    ELSE i * Cardinality(Within(a, r, i) \ Within(a, r, i - 1))
            + DistSum(a, r, i - 1)

\* the number of edges that leave a node of R
EdgesFrom(a, R) == Cardinality({e \in R \X DOMAIN a : e[2] \in a[e[1]]})

\* the metrics as the specification defines them over the reachable set R
MetricsOver(a, r) ==
    LET R == ReachableSet(a, r)
        N == Cardinality(DOMAIN a)
        inner == {node \in R : a[node] # {}}
    IN [depth |-> Float(CHOOSE d \in 0..N :
                          /\ \E node \in R : Dist(a, r, node) = d
                          /\ \A node \in R : Dist(a, r, node) <= d),
        avg_depth |-> Quot(DistSum(a, r, N), Cardinality(R)),
        leaves |-> Float(Cardinality(R \ inner)),
        branching_factor |->
            IF inner = {} THEN Float(0)
            ELSE Quot(EdgesFrom(a, inner), Cardinality(inner)),
        wiener_root_avg |-> Quot(DistSum(a, r, N), Cardinality(R))]

\* the adjacency without the keys the root does not reach
Pruned(a, r) == [node \in ReachableSet(a, r) |-> a[node]]

\* C6: with the root among the keys, the metrics are those of the reachable set:
\* the greatest depth, the number of reachable nodes without children, the mean
\* child count of the reachable nodes with children (0 if there are none). Keys
\* the root does not reach change none of the five metrics. The chain
\* root -> A -> B has depth 2, one leaf and branching factor 1.
C6_MetricsOfReachable ==
    (Returned /\ root \in DOMAIN adj) =>
        /\ metrics = MetricsOver(adj, root)
        /\ metrics = MetricsOver(Pruned(adj, root), root)
        /\ \A A, B \in DOMAIN adj :
              (A # B /\ adj[root] = {A} /\ adj[A] = {B} /\ adj[B] = {}) =>
                  /\ metrics.depth = Float(2)
                  /\ metrics.leaves = Float(1)
                  /\ metrics.branching_factor = Float(1)

\* C6 witness: the chain root -> A -> B beside a key the root does not reach,
\* which is a second parent of A and has a child of its own
C6_Witness ==
    /\ Returned
    /\ root \in DOMAIN adj
    /\ \E A, B, D \in DOMAIN adj :
          /\ Cardinality({root, A, B, D}) = 4
          /\ adj[root] = {A} /\ adj[A] = {B} /\ adj[B] = {}
          /\ adj[D] = {A, D}

-----------------------------------------------------------------------------
(* Labels: one call of construct_labels(prefixes, full_sizes, k) *)

\* full_sizes.get(cid, 0)
GetSize(sizes, cid) == IF cid \in DOMAIN sizes THEN sizes[cid] ELSE 0

\* a slip: > for >=
LabelOfStrict(final_size, threshold) == IF final_size > threshold THEN 1 ELSE 0

\* 1 if final_size >= threshold else 0
LabelOf(final_size, threshold) == IF final_size >= threshold THEN 1 ELSE 0

\* one turn of the loop over prefixes
label_step ==
    /\ pc = Start
    /\ Len(labels) < Len(prefixes)
    /\ LET cid == prefixes[Len(labels) + 1]
           threshold == 2 * kk
           final_size == GetSize(full_sizes, cid)
       IN labels' = Append(labels, LabelOf(final_size, threshold))
    /\ UNCHANGED <<prefixes, full_sizes, kk, pc>>

\* the loop is exhausted: return labels
label_return ==
    /\ pc = Start
    /\ Len(labels) = Len(prefixes)
    /\ pc' = Done
    /\ UNCHANGED <<prefixes, full_sizes, kk, labels>>

SeqsUpTo(S, n) == UNION {[1..m -> S] : m \in 0..n}

LabelInit ==
    /\ prefixes \in SeqsUpTo(LabelCids, MaxPrefixes)
    /\ \E K \in SUBSET LabelCids : full_sizes \in [K -> 0..MaxSize]
    /\ kk \in (0 - NegK)..MaxLabelK
    /\ labels = <<>>
    /\ pc = Start
    /\ adj = <<>> /\ root = 0 /\ depths = <<>> /\ queue = <<>>
    /\ current = 0 /\ todo = {} /\ metrics = <<>>
    /\ heap = [l \in ListIds |-> <<>>]
    /\ source = [cid |-> 0, root |-> 0, publish_time |-> 0, events |-> SrcList]
    /\ pref = <<>> /\ result = <<>>
    /\ call = [op |-> "init", k |-> 0, before |-> Snapshot(source, heap)]

LabelNext ==
    \/ label_step /\ UNCHANGED <<cascadeVars, treeVars>>
    \/ label_return /\ UNCHANGED <<cascadeVars, treeVars>>

LabelSpec == LabelInit /\ [][LabelNext]_vars

\* C9: construct_labels returns one label per prefix, in the order of the
\* prefixes: 1 if the full size of the prefix's cascade is at least 2*k, else 0,
\* a cascade missing from full_sizes counting as size 0 (so label 0 for k >= 1).
\* With full_sizes = {1: 10, 2: 3} and k = 5, cascade 1 is labelled 1 and
\* cascade 2 is labelled 0.
C9_DoublingLabels ==
    Returned =>
        /\ Len(labels) = Len(prefixes)
        /\ \A i \in 1..Len(prefixes) :
              /\ labels[i] \in {0, 1}
              /\ prefixes[i] \in DOMAIN full_sizes =>
                    (labels[i] = 1 <=> full_sizes[prefixes[i]] >= 2 * kk)
              /\ prefixes[i] \notin DOMAIN full_sizes =>
                    (labels[i] = 1 <=> 0 >= 2 * kk)
              /\ (prefixes[i] \notin DOMAIN full_sizes /\ kk >= 1) => labels[i] = 0
        /\ (DOMAIN full_sizes = {1, 2} /\ full_sizes[1] = 10 /\ full_sizes[2] = 3
              /\ kk = 5) =>
              \A i \in 1..Len(prefixes) :
                  /\ prefixes[i] = 1 => labels[i] = 1
                  /\ prefixes[i] = 2 => labels[i] = 0

\* C9 witness: the example of the specification, both cascades labelled
C9_Witness ==
    /\ Returned
    /\ DOMAIN full_sizes = {1, 2}
    /\ full_sizes[1] = 10 /\ full_sizes[2] = 3
    /\ kk = 5
    /\ prefixes = <<1, 2>>
    /\ labels = <<1, 0>>

\* C9 witness of the default: a cascade missing from full_sizes was labelled
C9_MissingLabelled ==
    /\ Returned
    /\ kk >= 1
    /\ \E i \in 1..Len(prefixes) : prefixes[i] \notin DOMAIN full_sizes

-----------------------------------------------------------------------------
(* Temporal features: extract_features(prefix) up to temporal_features *)

RECURSIVE SeqSum(_)
SeqSum(s) == IF s = <<>> THEN 0 ELSE Head(s) + SeqSum(Tail(s))

\* what a division by zero leaves in place of a float
ZeroDivision == <<1, 0>>

\* a / b on floats: raises ZeroDivisionError when b is 0
FloatDiv(a, b) ==
    IF b[1] = 0 \/ a = ZeroDivision \/ b = ZeroDivision THEN ZeroDivision
    ELSE Quot(a[1] * b[2], a[2] * b[1])

\* float(np.mean(s)) of a non-empty array
Mean(s) == Quot(SeqSum(s), Len(s))

\* float(np.var(s)): the population variance
Var(s) ==
    LET n == Len(s)
        squares == [i \in 1..n |-> s[i] * s[i]]
    IN Quot(n * SeqSum(squares) - SeqSum(s) * SeqSum(s), n * n)

\* np.diff(times)
Diff(times) == [i \in 1..(Len(times) - 1) |-> times[i + 1] - times[i]]

\* a slip: the test second_mean > 0 is missing
SpeedChangeUnguarded(first_diffs, second_diffs, mean_diff) ==
    IF Len(second_diffs) = 0 THEN Float(0)
    ELSE LET first_mean == IF Len(first_diffs) > 0 THEN Mean(first_diffs)
                           ELSE mean_diff
             second_mean == Mean(second_diffs)
         IN FloatDiv(first_mean, second_mean)

\* speed_change of temporal_features
SpeedChange(first_diffs, second_diffs, mean_diff) ==
    IF Len(second_diffs) = 0 THEN Float(0)
    ELSE LET first_mean == IF Len(first_diffs) > 0 THEN Mean(first_diffs)
                           ELSE mean_diff
             second_mean == Mean(second_diffs)
         IN IF second_mean[1] > 0 THEN FloatDiv(first_mean, second_mean)
            ELSE Float(0)

\* a slip: the index half_k for half_k - 1
HalfLifeOffByOne(times, t_k) ==
    LET half_k == Len(times) \div 2
        t_half == IF half_k >= 1 THEN times[half_k + 1] ELSE 0
    IN IF t_k > 0 THEN FloatDiv(Float(t_half), Float(t_k)) ELSE Float(0)

\* half_life_ratio of temporal_features: times[half_k - 1] counts from 0
HalfLife(times, t_k) ==
    LET half_k == Len(times) \div 2
        t_half == IF half_k >= 1 THEN times[half_k] ELSE 0
    IN IF t_k > 0 THEN FloatDiv(Float(t_half), Float(t_k)) ELSE Float(0)

\* the dict temporal_features returns for the events evs; error names the
\* exception when a division raised one
temporal_features(evs) ==
    LET k == Len(evs)
        t_k == IF k > 0 THEN evs[k].time ELSE 0
        times == [i \in 1..k |-> evs[i].time]
        diffs == Diff(times)
        half_k == k \div 2
        first_diffs == IF half_k > 0 THEN SubSeq(diffs, 1, Min(half_k, Len(diffs)))
                       ELSE <<>>
        second_diffs == IF half_k < Len(diffs)
                        THEN SubSeq(diffs, half_k + 1, Len(diffs))
                        ELSE <<>>
        feat == IF k > 1
                THEN [time_to_k |-> Float(t_k),
                      mean_inter_time |-> Mean(diffs),
                      var_inter_time |-> Var(diffs),
                      half_life_ratio |-> HalfLife(times, t_k),
                      speed_change |->
                          SpeedChange(first_diffs, second_diffs, Mean(diffs))]
                ELSE [time_to_k |-> Float(t_k),
                      mean_inter_time |-> Float(0),
                      var_inter_time |-> Float(0),
                      half_life_ratio |-> Float(0),
                      speed_change |-> Float(0)]
    IN [error |-> IF \E name \in DOMAIN feat : feat[name] = ZeroDivision
                  THEN "ZeroDivisionError" ELSE "",
        feat |-> feat]

\* extract_features(prefix) up to feat = temporal_features(prefix)
extract_temporal ==
    /\ pc = Start
    /\ pref # <<>>
    /\ heap' = [heap EXCEPT ![pref[1].events] = SortedByTime(@)]
    /\ result' = temporal_features(heap'[pref[1].events])
    /\ call' = [op |-> "temporal_features", k |-> 0,
                before |-> Snapshot(pref[1], heap)]
    /\ pc' = Done
    /\ UNCHANGED <<source, pref>>

\* an event of a prefix given to extract_features: only its time is read
TimedEvents == [user : {1}, parent : {1}, time : 0..MaxFeatTime]

FeatureInit ==
    /\ \E evs \in SeqsUpTo(TimedEvents, MaxFeatLen) :
          heap = [l \in ListIds |-> IF l = PreList THEN evs ELSE <<>>]
    /\ source = [cid |-> 0, root |-> 0, publish_time |-> 0, events |-> SrcList]
    /\ pref = <<[cid |-> 0, root |-> 0, publish_time |-> 0, events |-> PreList]>>
    /\ result = <<>>
    /\ call = [op |-> "init", k |-> 0, before |-> Snapshot(source, heap)]
    /\ pc = Start
    /\ adj = <<>> /\ root = 0 /\ depths = <<>> /\ queue = <<>>
    /\ current = 0 /\ todo = {} /\ metrics = <<>>
    /\ prefixes = <<>> /\ full_sizes = <<>> /\ kk = 0 /\ labels = <<>>

FeatureNext == extract_temporal /\ UNCHANGED <<treeVars, labelVars>>

FeatureSpec == FeatureInit /\ [][FeatureNext]_vars

\* the float q is the quotient n / d
IsQuotient(q, n, d) == q[2] > 0 /\ q[1] * d = q[2] * n

AfterTemporal == call.op = "temporal_features"

\* C11: on a prefix sorted by time, with times >= 0, temporal_features raises no
\* division by zero. With fewer than 2 events the four statistics are 0 and
\* time_to_k is the last time (0 without events). With k >= 2 events,
\* half_life_ratio is 0 when time_to_k is 0 and else the time of event k // 2
\* over time_to_k; speed_change is 0 when diffs[k//2:] is empty or has mean 0
\* and else mean(diffs[:k//2]) / mean(diffs[k//2:]). The differences of a half
\* add up to its last time minus its first.
C11_TemporalFallbacks ==
    AfterTemporal =>
        LET E == heap[pref[1].events]
            k == Len(E)
            h == k \div 2
            f == result.feat
        IN /\ IsSortedByTime(E)
           /\ result.error = ""
           /\ f.time_to_k = Float(IF k > 0 THEN E[k].time ELSE 0)
           /\ k < 2 =>
                 /\ f.mean_inter_time = Float(0)
                 /\ f.var_inter_time = Float(0)
                 /\ f.half_life_ratio = Float(0)
                 /\ f.speed_change = Float(0)
           /\ k >= 2 =>
                 LET firstLen == h
                     firstSum == E[h + 1].time - E[1].time
                     secondLen == (k - 1) - h
                     secondSum == E[k].time - E[h + 1].time
                 IN /\ IF E[k].time = 0 THEN f.half_life_ratio = Float(0)
                       ELSE IsQuotient(f.half_life_ratio, E[h].time, E[k].time)
                    /\ IF secondLen = 0 \/ secondSum = 0
                       THEN f.speed_change = Float(0)
                       ELSE IsQuotient(f.speed_change, firstSum * secondLen,
                                       firstLen * secondSum)

\* C11 witness: the second half of the differences has mean 0 and the first has
\* not, so the division is skipped; the events were given out of order
C11_Witness ==
    /\ AfterTemporal
    /\ ~IsSortedByTime(call.before.events)
    /\ LET E == heap[pref[1].events] IN
       /\ Len(E) >= 3
       /\ E[Len(E)].time = E[Len(E) \div 2 + 1].time
       /\ E[Len(E) \div 2 + 1].time > E[1].time
       /\ result.feat.speed_change = Float(0)

\* the example of the specification: times 1, 3, 4, 10
C11_Example ==
    /\ AfterTemporal
    /\ Len(heap[pref[1].events]) = 4
    /\ [i \in 1..4 |-> heap[pref[1].events][i].time] = <<1, 3, 4, 10>>
    /\ result.feat.time_to_k = Float(10)
    /\ result.feat.mean_inter_time = Float(3)
    /\ result.feat.var_inter_time = <<14, 3>>
    /\ result.feat.half_life_ratio = <<3, 10>>
    /\ result.feat.speed_change = <<1, 4>>

-----------------------------------------------------------------------------
(* The run of compute_depths *)

InLoop == pc \in {While, For}

\* in the loop the root keeps depth 0, the relaxation test
\* depths[child] > depths[current] + 1 holds of no child the loop has yet to
\* visit, and the queue holds no node twice and only nodes whose depth is set
BfsInvariant ==
    /\ (InLoop \/ (Returned /\ root \in DOMAIN adj)) => depths[root] = 0
    /\ pc = For =>
          \A child \in todo :
              depths[child] # -1 => depths[child] <= depths[current] + 1
    /\ InLoop =>
          /\ \A i, j \in 1..Len(queue) : queue[i] = queue[j] => i = j
          /\ \A i \in 1..Len(queue) : depths[queue[i]] >= 0

\* a depth that is set is not overwritten, and a node is appended to the queue
\* only when its depth is still -1
BfsStep ==
    InLoop =>
        /\ \A node \in DOMAIN depths :
              depths[node] >= 0 => depths'[node] = depths[node]
        /\ Len(queue') <= Len(queue) + 1
        /\ Len(queue') = Len(queue) + 1 =>
              LET child == queue'[Len(queue')]
              IN /\ queue' = Append(queue, child)
                 /\ depths[child] = -1
                 /\ depths'[child] >= 0

\* C13: compute_depths terminates on every adjacency whose children are keys,
\* with cycles or a node of two parents. In the run a node is appended to the
\* queue at most once (only while its depth is -1, which the append ends for
\* good), a depth >= 0 is never overwritten, the relaxation test never holds,
\* and the root keeps depth 0.
C13_BfsTerminates ==
    /\ []BfsInvariant
    /\ [][BfsStep]_vars
    /\ <>Returned

\* C13 witness: the call returned on an adjacency with the cycle
\* root -> A -> root and a node B that root and A both have as a child
C13_Witness ==
    /\ Returned
    /\ root \in DOMAIN adj
    /\ \E A, B \in DOMAIN adj :
          /\ Cardinality({root, A, B}) = 3
          /\ A \in adj[root] /\ root \in adj[A]
          /\ B \in adj[root] /\ B \in adj[A]
          /\ depths[A] = 1 /\ depths[B] = 1

-----------------------------------------------------------------------------
(* A source and its prefix, both in use *)

\* the cascade a call is made on
Target(who) == IF who = "source" THEN source ELSE pref[1]

\* Cascade.add_event on the source or on the prefix
cascade_add_event(who, user, parent, time) ==
    /\ pref # <<>>
    /\ Len(heap[Target(who).events]) < MaxAliasLen
    /\ heap' = [heap EXCEPT ![Target(who).events] =
                   Append(@, [user |-> user, parent |-> parent, time |-> time])]
    /\ call' = [op |-> "add_event", k |-> 0, on |-> who,
                before |-> Snapshot(Target(who), heap)]
    /\ result' = <<>>
    /\ UNCHANGED <<source, pref>>

\* Cascade.sort_events on the source or on the prefix
cascade_sort_events(who) ==
    /\ pref # <<>>
    /\ heap' = [heap EXCEPT ![Target(who).events] = SortedByTime(@)]
    /\ call' = [op |-> "sort_events", k |-> 0, on |-> who,
                before |-> Snapshot(Target(who), heap)]
    /\ result' = <<>>
    /\ UNCHANGED <<source, pref>>

\* Cascade.get_k_prefix on the source or on the prefix, once a prefix is kept:
\* the cascade it returns is a further object with a list of its own, which the
\* caller drops
cascade_get_k_prefix(who, k) ==
    /\ pref # <<>>
    /\ heap' = [PrefixHeapInto(heap, Target(who), k, OtherList)
                   EXCEPT ![OtherList] = <<>>]
    /\ call' = [op |-> "get_k_prefix", k |-> k, on |-> who,
                before |-> Snapshot(Target(who), heap)]
    /\ result' = <<>>
    /\ UNCHANGED <<source, pref>>

\* retweets of user 1 by user 2, told apart by their times
AliasEvents == [user : {2}, parent : {1}, time : Times]

AliasInit ==
    /\ \E evs \in SeqsUpTo(AliasEvents, MaxAliasLen) :
          heap = [l \in ListIds |-> IF l = SrcList THEN evs ELSE <<>>]
    /\ source \in [cid : Cids, root : Roots, publish_time : PublishTimes,
                   events : {SrcList}]
    /\ pref = <<>>
    /\ result = <<>>
    /\ call = [op |-> "init", k |-> 0, before |-> Snapshot(source, heap)]
    /\ pc = Truncate
    /\ adj = <<>> /\ root = 0 /\ depths = <<>> /\ queue = <<>>
    /\ current = 0 /\ todo = {} /\ metrics = <<>>
    /\ prefixes = <<>> /\ full_sizes = <<>> /\ kk = 0 /\ labels = <<>>

AliasNext ==
    \/ /\ \E k \in (0 - NegK)..MaxAliasLen : pref = <<>> /\ get_k_prefix(k)
       /\ UNCHANGED <<pc, treeVars, labelVars>>
    \/ /\ \E who \in {"source", "prefix"}, ev \in AliasEvents :
             cascade_add_event(who, ev.user, ev.parent, ev.time)
       /\ UNCHANGED <<pc, treeVars, labelVars>>
    \/ /\ \E who \in {"source", "prefix"} : cascade_sort_events(who)
       /\ UNCHANGED <<pc, treeVars, labelVars>>
    \/ /\ \E who \in {"source", "prefix"}, k \in (0 - NegK)..MaxAliasLen :
             cascade_get_k_prefix(who, k)
       /\ UNCHANGED <<pc, treeVars, labelVars>>
    \/ /\ extract_features
       /\ UNCHANGED <<pc, treeVars, labelVars>>

AliasSpec == AliasInit /\ [][AliasNext]_vars

\* the number of times e occurs in s
Count(s, e) == Cardinality({i \in 1..Len(s) : s[i] = e})

\* the last call was made on who; extract_features is given the prefix
CallOn(c, who) ==
    \/ "on" \in DOMAIN c /\ c.on = who
    \/ who = "prefix" /\ c.op = "extract_features"

\* the prefix and the source refer to two lists
NoSharedList == pref # <<>> => pref[1].events # source.events

\* a step taken while a prefix is kept: a call on the prefix leaves the events
\* of the source as they are, a call on the source leaves the events of the
\* prefix as they are, and every event a list holds is still in it afterwards,
\* as it was
IndependentStep ==
    (pref # <<>> /\ pref' = pref) =>
        /\ CallOn(call', "prefix") =>
              heap'[source.events] = heap[source.events]
        /\ CallOn(call', "source") =>
              heap'[pref[1].events] = heap[pref[1].events]
        /\ \A l \in {source.events, pref[1].events} :
              \A e \in Elements(heap[l]) : Count(heap'[l], e) >= Count(heap[l], e)

\* C12: a prefix returned by get_k_prefix is independent of its source: the two
\* cascades never refer to the same list; add_event, sort_events, get_k_prefix
\* and extract_features on the prefix leave the event sequence of the source
\* unchanged; add_event, sort_events and get_k_prefix on the source leave the
\* event sequence of the prefix unchanged; no call changes an event a list holds.
C12_PrefixIndependent == []NoSharedList /\ [][IndependentStep]_vars

\* a prefix was taken, the source then got an event that leaves it unsorted and
\* that the prefix holds less often, and the prefix got an event the source
\* holds less often
C12_Witness ==
    /\ pref # <<>>
    /\ pref[1].events # source.events
    /\ call.op = "add_event" /\ CallOn(call, "prefix")
    /\ ~IsSortedByTime(heap[source.events])
    /\ \E e \in AliasEvents :
          Count(heap[source.events], e) > Count(heap[pref[1].events], e)
    /\ \E e \in AliasEvents :
          Count(heap[pref[1].events], e) > Count(heap[source.events], e)

=============================================================================
